---- MODULE Spec2Model ----
(***************************************************************************)
(* A model of the TCP server of go-core (package servers): the accept loop *)
(* of Server (Start / Stop), and TCPConnection (Close, OnClose,            *)
(* WriteMessage, ReadMessage, BufferUpdate, Flush).                        *)
(*                                                                         *)
(* Every method is cut into steps at its accesses to state shared between  *)
(* goroutines; pc[t] names the source line thread t executes next.         *)
(***************************************************************************)
EXTENDS Integers, Sequences, FiniteSets, TLC

\* ------------------------------------------------------------------ bounds
MaxHooks == 2
MaxBuf == 2
MaxArg == 2
MaxWrites == 2
MaxBody == 2
MaxClients == 3

\* Byte values and tick values the calls are made with.
SampleBytes == {1, 2}
SampleTicks == {7, 16909060}

\* bufio.NewReader's buffer size (bufio's defaultBufSize).
BufSize == 4096

Threads == {"tick", "reader"}

VARIABLES
  \* TCPConnection
  Closed,          \* c.Closed
  closeFunctions,  \* c.closeFunctions: the registered hooks, in order
  updates,         \* c.updates: the bytes buffered
  connReleased,    \* how many times c.conn.Close() has been called
  hookRuns,        \* the hooks invoked so far, in invocation order
  lastWrite,       \* the last c.conn.Write call: [arg, wire, ok]
  nWrites,         \* how many c.conn.Write calls were made
  pc,              \* per thread: the line it is at, or "idle"
  call,            \* per thread: the call in progress or last made (Flush: its tick)
  loc,             \* per thread: Close's locals (range snapshot, index, caller)
  ret,             \* per thread: what its last returned call returned
  sinceFlush,      \* the bytes BufferUpdate was given since the last Flush call
  \* Server
  stopping,        \* t.stopping
  chanClosed,      \* close(t.Connections) has run
  chanBuf,         \* what the channel buffers (capacity ChanCap)
  listenerClosed,  \* the listening socket was closed (externally)
  lpc,             \* the accept loop's position
  conn,            \* the loop's local conn: a socket number, or 0 for nil
  accepted,        \* sockets Accept has returned so far
  constructed,     \* sockets wrapped by NewTCPConnection, in order
  delivered,       \* connections a consumer has received, in order
  sockClosed,      \* sockets the loop closed itself
  stopPc,          \* Stop's position
  startRet,        \* what Start returned: "none", "nil", "err", "panic"
  \* ReadMessage
  rd,              \* the socket's inbound stream and the bufio.Reader over it
  rpc,             \* ReadMessage's position
  rlen,            \* the length buffer after the first Read
  rres,            \* what ReadMessage returned
  sent             \* the body the peer framed and wrote

connVars == <<Closed, closeFunctions, updates, connReleased, hookRuns, lastWrite,
              nWrites, pc, call, loc, ret, sinceFlush>>
srvVars == <<stopping, chanClosed, chanBuf, listenerClosed, lpc, conn, accepted,
             constructed, delivered, sockClosed, stopPc, startRet>>
readVars == <<rd, rpc, rlen, rres, sent>>
vars == <<connVars, srvVars, readVars>>

\* ------------------------------------------------------------------ helpers
RECURSIVE SeqsUpTo(_, _)
SeqsUpTo(S, n) ==
  IF n = 0 THEN {<<>>}
  ELSE LET shorter == SeqsUpTo(S, n - 1)
       IN shorter \cup {Append(s, x) : s \in {q \in shorter : Len(q) = n - 1}, x \in S}

Min(a, b) == IF a < b THEN a ELSE b

Take(s, n) == SubSeq(s, 1, Min(n, Len(s)))
Drop(s, n) == SubSeq(s, Min(n, Len(s)) + 1, Len(s))

Zeros(n) == [i \in 1..n |-> 0]

IsPrefix(s, t) == Len(s) <= Len(t) /\ SubSeq(t, 1, Len(s)) = s

Count(s, x) == Cardinality({i \in 1..Len(s) : s[i] = x})

\* The four bytes of v, most significant first.
PutUint32BE(v) ==
  <<(v \div 16777216) % 256, (v \div 65536) % 256, (v \div 256) % 256, v % 256>>

\* binary.LittleEndian.PutUint32(b, tick)
PutUint32(v) ==
  <<v % 256, (v \div 256) % 256, (v \div 65536) % 256, (v \div 16777216) % 256>>

\* binary.LittleEndian.Uint16(length)
Uint16(b) == b[1] + 256 * b[2]

\* The peer's side of the wire format: a 2-byte little-endian length, then the body.
PeerFrame(b) == <<Len(b) % 256, (Len(b) \div 256) % 256>> \o b

\* ------------------------------------------------------------------ TCPConnection
NoCall == [op |-> "none", arg |-> <<>>]
NoWrite == [arg |-> <<>>, wire |-> <<>>, ok |-> FALSE]
NoLoc == [fs |-> <<>>, i |-> 0, from |-> "none"]

ConnInit ==
  /\ Closed = FALSE
  /\ closeFunctions = <<>>
  /\ updates = <<>>
  /\ connReleased = 0
  /\ hookRuns = <<>>
  /\ lastWrite = NoWrite
  /\ nWrites = 0
  /\ pc = [t \in Threads |-> "idle"]
  /\ call = [t \in Threads |-> NoCall]
  /\ loc = [t \in Threads |-> NoLoc]
  /\ ret = [t \in Threads |-> "none"]
  /\ sinceFlush = <<>>

\* A WriteMessage that put a length prefix before p.
WireBytesFramed(p) == PeerFrame(p)

\* WriteMessage, line 134: p goes to conn.Write as it is.
WireBytes(p) == p

\* c.conn.Write(p): fails on a released socket, and may fail on an open one.
WriteOutcomes == IF connReleased > 0 THEN {FALSE} ELSE {TRUE, FALSE}

\* func (c *TCPConnection) OnClose(f func())
OnClose(t) ==
  /\ UNCHANGED <<srvVars, readVars, sinceFlush>>
  /\ pc[t] = "idle"
  /\ Len(closeFunctions) < MaxHooks
  /\ closeFunctions' = Append(closeFunctions, Len(closeFunctions) + 1)
  /\ call' = [call EXCEPT ![t] = [op |-> "OnClose", arg |-> <<>>]]
  /\ ret' = [ret EXCEPT ![t] = "none"]
  /\ UNCHANGED <<Closed, updates, connReleased, hookRuns, lastWrite, nWrites, pc, loc>>

\* A WriteMessage that marks the connection closed when its write fails.
WriteMessageClosing(t, p, ok) ==
  /\ UNCHANGED <<srvVars, readVars, sinceFlush>>
  /\ pc[t] = "idle"
  /\ nWrites < MaxWrites
  /\ ok \in WriteOutcomes
  /\ lastWrite' = [arg |-> p, wire |-> WireBytes(p), ok |-> ok]
  /\ nWrites' = nWrites + 1
  /\ Closed' = (Closed \/ ~ok)
  /\ call' = [call EXCEPT ![t] = [op |-> "WriteMessage", arg |-> <<>>]]
  /\ ret' = [ret EXCEPT ![t] = IF ok THEN "nil" ELSE "err"]
  /\ UNCHANGED <<closeFunctions, updates, connReleased, hookRuns, pc, loc>>

\* Hooks are numbered in registration order; one that calls c.Close() has its
\* number negated.
CallsClose(f) == f < 0

\* OnClose(f) with an f that calls c.Close()
OnCloseReentrant(t) ==
  /\ UNCHANGED <<srvVars, readVars, sinceFlush>>
  /\ pc[t] = "idle"
  /\ Len(closeFunctions) < MaxHooks
  /\ closeFunctions' = Append(closeFunctions, 0 - (Len(closeFunctions) + 1))
  /\ call' = [call EXCEPT ![t] = [op |-> "OnClose", arg |-> <<>>]]
  /\ ret' = [ret EXCEPT ![t] = "none"]
  /\ UNCHANGED <<Closed, updates, connReleased, hookRuns, lastWrite, nWrites, pc, loc>>

\* func (c *TCPConnection) WriteMessage(p []byte) error
WriteMessage(t, p, ok) ==
  /\ UNCHANGED <<srvVars, readVars, sinceFlush>>
  /\ pc[t] = "idle"
  /\ nWrites < MaxWrites
  /\ ok \in WriteOutcomes
  /\ lastWrite' = [arg |-> p, wire |-> WireBytes(p), ok |-> ok]
  /\ nWrites' = nWrites + 1
  /\ call' = [call EXCEPT ![t] = [op |-> "WriteMessage", arg |-> <<>>]]
  /\ ret' = [ret EXCEPT ![t] = IF ok THEN "nil" ELSE "err"]
  /\ UNCHANGED <<Closed, closeFunctions, updates, connReleased, hookRuns, pc, loc>>

\* A buffer that takes new bytes at its front.
BufferedInFront(s) == s \o updates

\* BufferUpdate, line 156: c.updates.Write(s) puts s after what is buffered
Buffered(s) == updates \o s

\* func (c *TCPConnection) BufferUpdate(s []byte)
BufferUpdate(t, s) ==
  /\ UNCHANGED <<srvVars, readVars>>
  /\ pc[t] = "idle"
  /\ Len(updates) + Len(s) <= MaxBuf
  /\ updates' = Buffered(s)
  /\ sinceFlush' = sinceFlush \o s
  /\ call' = [call EXCEPT ![t] = [op |-> "BufferUpdate", arg |-> <<>>]]
  /\ ret' = [ret EXCEPT ![t] = "none"]
  /\ UNCHANGED <<Closed, closeFunctions, connReleased, hookRuns, lastWrite, nWrites, pc, loc>>

\* A Close without its guard.
AlreadyClosedNever == FALSE

\* Close, line 117: if c.Closed { return nil }
AlreadyClosed == Closed

\* Where a finished Close goes back to: its caller, or Flush's line 178.
CloseReturn(t, err) ==
  IF loc[t].from = "Flush"
  THEN /\ pc' = [pc EXCEPT ![t] = "Flush178"]
       /\ ret' = ret
  ELSE /\ pc' = [pc EXCEPT ![t] = "idle"]
       /\ ret' = [ret EXCEPT ![t] = err]

\* func (c *TCPConnection) Close() error, called by the application
CloseCall(t) ==
  /\ UNCHANGED <<srvVars, readVars, sinceFlush>>
  /\ pc[t] = "idle"
  /\ pc' = [pc EXCEPT ![t] = "Close117"]
  /\ call' = [call EXCEPT ![t] = [op |-> "Close", arg |-> <<>>]]
  /\ loc' = [loc EXCEPT ![t] = [fs |-> <<>>, i |-> 0, from |-> "caller"]]
  /\ ret' = [ret EXCEPT ![t] = "none"]
  /\ UNCHANGED <<Closed, closeFunctions, updates, connReleased, hookRuns, lastWrite, nWrites>>

\* line 117: the read of c.Closed
Close117(t) ==
  /\ UNCHANGED <<srvVars, readVars, sinceFlush>>
  /\ pc[t] = "Close117"
  /\ IF AlreadyClosed
     THEN CloseReturn(t, "nil")
     ELSE pc' = [pc EXCEPT ![t] = "Close122"] /\ ret' = ret
  /\ UNCHANGED <<Closed, closeFunctions, updates, connReleased, hookRuns, lastWrite, nWrites,
                 call, loc>>

\* lines 121-122: c.Closed = true
Close122(t) ==
  /\ UNCHANGED <<srvVars, readVars, sinceFlush>>
  /\ pc[t] = "Close122"
  /\ Closed' = TRUE
  /\ pc' = [pc EXCEPT ![t] = "Close123"]
  /\ UNCHANGED <<closeFunctions, updates, connReleased, hookRuns, lastWrite, nWrites, call,
                 loc, ret>>

\* line 123: range evaluates c.closeFunctions once
Close123(t) ==
  /\ UNCHANGED <<srvVars, readVars, sinceFlush>>
  /\ pc[t] = "Close123"
  /\ loc' = [loc EXCEPT ![t].fs = closeFunctions, ![t].i = 1]
  /\ pc' = [pc EXCEPT ![t] = IF closeFunctions = <<>> THEN "Close126" ELSE "Close124"]
  /\ UNCHANGED <<Closed, closeFunctions, updates, connReleased, hookRuns, lastWrite, nWrites,
                 call, ret>>

\* A hook's Close that finds the flag not yet set.
HookFindsOpen == FALSE

\* line 117 of the Close a hook calls: the read of c.Closed, after line 122 of
\* the Close that runs the hook
HookFindsClosed == Closed

\* line 124: f(). A hook that calls c.Close() has its call return nil at line
\* 118; were the flag not set, that Close would go on from line 121 and run
\* the hooks from the first.
Close124(t) ==
  /\ UNCHANGED <<srvVars, readVars, sinceFlush>>
  /\ pc[t] = "Close124"
  /\ hookRuns' = Append(hookRuns, loc[t].fs[loc[t].i])
  /\ IF CallsClose(loc[t].fs[loc[t].i]) /\ ~HookFindsClosed
     THEN /\ loc' = loc
          /\ pc' = [pc EXCEPT ![t] = "Close122"]
     ELSE /\ loc' = [loc EXCEPT ![t].i = loc[t].i + 1]
          /\ pc' = [pc EXCEPT ![t] =
                      IF loc[t].i = Len(loc[t].fs) THEN "Close126" ELSE "Close124"]
  /\ UNCHANGED <<Closed, closeFunctions, updates, connReleased, lastWrite, nWrites, call, ret>>

\* line 126: return c.conn.Close(); releasing a released socket is an error
Close126(t) ==
  /\ UNCHANGED <<srvVars, readVars, sinceFlush>>
  /\ pc[t] = "Close126"
  /\ connReleased' = connReleased + 1
  /\ CloseReturn(t, IF connReleased = 0 THEN "nil" ELSE "err")
  /\ UNCHANGED <<Closed, closeFunctions, updates, hookRuns, lastWrite, nWrites, call, loc>>

\* A frame whose tick is written most significant byte first.
TickFrameBigEndian(tick, buf) == PutUint32BE(tick) \o buf \o <<0>>

\* Flush, lines 164-168: the tick, the buffered bytes, a zero byte
TickFrame(tick, buf) == PutUint32(tick) \o buf \o <<0>>

\* A Flush without its early return.
UpdatesEmptyNever == FALSE

\* Flush, line 160: c.updates.Len() == 0
UpdatesEmpty == Len(updates) = 0

\* func (c *TCPConnection) Flush(tick uint32), lines 160-170 and, when the write
\* succeeds, line 178
FlushCall(t, tick, ok) ==
  /\ UNCHANGED <<srvVars, readVars>>
  /\ sinceFlush' = <<>>
  /\ pc[t] = "idle"
  /\ call' = [call EXCEPT ![t] = [op |-> "Flush", arg |-> <<tick>>]]
  /\ ret' = [ret EXCEPT ![t] = "none"]
  /\ IF UpdatesEmpty
     THEN UNCHANGED <<updates, lastWrite, nWrites, pc>>
     ELSE /\ nWrites < MaxWrites
          /\ ok \in WriteOutcomes
          /\ LET b == TickFrame(tick, updates)
             IN lastWrite' = [arg |-> b, wire |-> WireBytes(b), ok |-> ok]
          /\ nWrites' = nWrites + 1
          /\ updates' = IF ok THEN <<>> ELSE updates
          /\ pc' = [pc EXCEPT ![t] = IF ok THEN "idle" ELSE "Flush171"]
  /\ UNCHANGED <<Closed, closeFunctions, connReleased, hookRuns, loc>>

\* A Flush that takes every write failure as one on a closed connection.
FailedOnClosedAlways == TRUE

\* Flush, line 171: if c.Closed, read after the write has failed
FailedOnClosed == Closed

\* lines 171-175: the write failed; return if c.Closed, else log and c.Close()
Flush171(t) ==
  /\ UNCHANGED <<srvVars, readVars, sinceFlush>>
  /\ pc[t] = "Flush171"
  /\ IF FailedOnClosed
     THEN pc' = [pc EXCEPT ![t] = "idle"] /\ loc' = loc
     ELSE /\ pc' = [pc EXCEPT ![t] = "Close117"]
          /\ loc' = [loc EXCEPT ![t] = [fs |-> <<>>, i |-> 0, from |-> "Flush"]]
  /\ UNCHANGED <<Closed, closeFunctions, updates, connReleased, hookRuns, lastWrite, nWrites,
                 call, ret>>

\* line 178: c.updates.Reset()
Flush178(t) ==
  /\ UNCHANGED <<srvVars, readVars, sinceFlush>>
  /\ pc[t] = "Flush178"
  /\ updates' = <<>>
  /\ pc' = [pc EXCEPT ![t] = "idle"]
  /\ UNCHANGED <<Closed, closeFunctions, connReleased, hookRuns, lastWrite, nWrites, call, loc,
                 ret>>

\* The steps of a call in progress.
ConnStep(t) ==
  \/ Close117(t) \/ Close122(t) \/ Close123(t) \/ Close124(t) \/ Close126(t)
  \/ Flush171(t) \/ Flush178(t)

Args == SeqsUpTo(SampleBytes, MaxArg)

\* The calls the application makes from thread t.
ConnCall(t) ==
  \/ OnClose(t)
  \/ CloseCall(t)
  \/ \E p \in {<<>>, <<1>>}, ok \in BOOLEAN : WriteMessage(t, p, ok)
  \/ \E s \in Args : BufferUpdate(t, s)
  \/ \E tick \in SampleTicks, ok \in BOOLEAN : FlushCall(t, tick, ok)

\* ------------------------------------------------------------------ Server
\* A channel made with room for one connection.
ChanCapOne == 0 + 1

\* NewTCPServer, line 43: make(chan *TCPConnection) has no buffer
ChanCap == 0

SrvInit ==
  /\ stopping = FALSE
  /\ chanClosed = FALSE
  /\ chanBuf = <<>>
  /\ listenerClosed = FALSE
  /\ lpc = "notStarted"
  /\ conn = 0
  /\ accepted = 0
  /\ constructed = <<>>
  /\ delivered = <<>>
  /\ sockClosed = {}
  /\ stopPc = "idle"
  /\ startRet = "none"

\* A panic in the accept loop's goroutine ends the process.
Alive == startRet # "panic"

LoopReturn(r) ==
  /\ lpc' = IF r = "panic" THEN "panicked" ELSE "returned"
  /\ startRet' = r

\* The application calls Start.
StartCall ==
  /\ UNCHANGED <<connVars, readVars>>
  /\ Alive
  /\ lpc = "notStarted"
  /\ lpc' = "Start50"
  /\ UNCHANGED <<stopping, chanClosed, chanBuf, listenerClosed, conn, accepted,
                 constructed, delivered, sockClosed, stopPc, startRet>>

\* line 50: net.Listen
Start50(ok) ==
  /\ UNCHANGED <<connVars, readVars>>
  /\ Alive
  /\ lpc = "Start50"
  /\ IF ok THEN lpc' = "Start57" /\ startRet' = startRet ELSE LoopReturn("err")
  /\ UNCHANGED <<stopping, chanClosed, chanBuf, listenerClosed, conn, accepted,
                 constructed, delivered, sockClosed, stopPc>>

\* line 57: if t.stopping { break }
Start57 ==
  /\ UNCHANGED <<connVars, readVars>>
  /\ Alive
  /\ lpc = "Start57"
  /\ IF stopping THEN LoopReturn("nil") ELSE lpc' = "Start61" /\ startRet' = startRet
  /\ UNCHANGED <<stopping, chanClosed, chanBuf, listenerClosed, conn, accepted,
                 constructed, delivered, sockClosed, stopPc>>

\* line 61: Accept returns a client's socket
AcceptSocket ==
  /\ UNCHANGED <<connVars, readVars>>
  /\ Alive
  /\ lpc = "Start61"
  /\ ~listenerClosed
  /\ accepted < MaxClients
  /\ accepted' = accepted + 1
  /\ conn' = accepted + 1
  /\ lpc' = "Start70"
  /\ UNCHANGED <<stopping, chanClosed, chanBuf, listenerClosed, constructed,
                 delivered, sockClosed, stopPc, startRet>>

\* lines 61-66: Accept fails with "use of closed network connection": break
AcceptClosed ==
  /\ UNCHANGED <<connVars, readVars>>
  /\ Alive
  /\ lpc = "Start61"
  /\ listenerClosed
  /\ conn' = 0
  /\ LoopReturn("nil")
  /\ UNCHANGED <<stopping, chanClosed, chanBuf, listenerClosed, accepted,
                 constructed, delivered, sockClosed, stopPc>>

\* lines 61-67: Accept fails with another error: conn is nil, the error is logged
AcceptError ==
  /\ UNCHANGED <<connVars, readVars>>
  /\ Alive
  /\ lpc = "Start61"
  /\ ~listenerClosed
  /\ conn' = 0
  /\ lpc' = "Start70"
  /\ UNCHANGED <<stopping, chanClosed, chanBuf, listenerClosed, accepted,
                 constructed, delivered, sockClosed, stopPc, startRet>>

\* lines 70-77: if t.stopping { conn.Close(); break }; conn.RemoteAddr();
\* NewTCPConnection(conn). A method call on the nil conn panics.
Start70 ==
  /\ UNCHANGED <<connVars, readVars>>
  /\ Alive
  /\ lpc = "Start70"
  /\ IF conn = 0
     THEN LoopReturn("panic") /\ UNCHANGED <<sockClosed, constructed>>
     ELSE IF stopping
     THEN /\ sockClosed' = sockClosed \cup {conn}
          /\ LoopReturn("nil")
          /\ UNCHANGED constructed
     ELSE /\ constructed' = Append(constructed, conn)
          /\ lpc' = "Start77"
          /\ UNCHANGED <<sockClosed, startRet>>
  /\ UNCHANGED <<stopping, chanClosed, chanBuf, listenerClosed, conn, accepted,
                 delivered, stopPc>>

\* line 77: t.Connections <- c, when it does not have to wait for a receiver:
\* the channel is closed (panic) or has room
Start77 ==
  /\ UNCHANGED <<connVars, readVars>>
  /\ Alive
  /\ lpc = "Start77"
  /\ chanClosed \/ Len(chanBuf) < ChanCap
  /\ IF chanClosed
     THEN LoopReturn("panic") /\ UNCHANGED chanBuf
     ELSE /\ chanBuf' = Append(chanBuf, conn)
          /\ lpc' = "Start57"
          /\ UNCHANGED startRet
  /\ UNCHANGED <<stopping, chanClosed, listenerClosed, conn, accepted, constructed,
                 delivered, sockClosed, stopPc>>

\* A consumer receives from t.Connections: from the buffer, or from the loop
\* waiting at line 77
Receive ==
  /\ UNCHANGED <<connVars, readVars>>
  /\ Alive
  /\ IF chanBuf # <<>>
     THEN /\ delivered' = Append(delivered, Head(chanBuf))
          /\ chanBuf' = Tail(chanBuf)
          /\ UNCHANGED lpc
     ELSE /\ lpc = "Start77"
          /\ ~chanClosed
          /\ delivered' = Append(delivered, conn)
          /\ lpc' = "Start57"
          /\ UNCHANGED chanBuf
  /\ UNCHANGED <<stopping, chanClosed, listenerClosed, conn, accepted, constructed,
                 sockClosed, stopPc, startRet>>

\* func (t *Server) Stop(), lines 84-85: t.stopping = true
Stop85 ==
  /\ UNCHANGED <<connVars, readVars>>
  /\ Alive
  /\ stopPc = "idle"
  /\ stopping' = TRUE
  /\ stopPc' = "Stop86"
  /\ UNCHANGED <<chanClosed, chanBuf, listenerClosed, lpc, conn, accepted,
                 constructed, delivered, sockClosed, startRet>>

\* line 86: close(t.Connections)
Stop86 ==
  /\ UNCHANGED <<connVars, readVars>>
  /\ Alive
  /\ stopPc = "Stop86"
  /\ chanClosed' = TRUE
  /\ stopPc' = "done"
  /\ UNCHANGED <<stopping, chanBuf, listenerClosed, lpc, conn, accepted,
                 constructed, delivered, sockClosed, startRet>>

\* The listening socket is closed from outside the Server.
ExternalClose ==
  /\ UNCHANGED <<connVars, readVars>>
  /\ Alive
  /\ lpc \in {"Start57", "Start61", "Start70", "Start77"}
  /\ ~listenerClosed
  /\ listenerClosed' = TRUE
  /\ UNCHANGED <<stopping, chanClosed, chanBuf, lpc, conn, accepted, constructed,
                 delivered, sockClosed, stopPc, startRet>>

\* The steps the accept loop and Stop take on their own.
LoopStep == Start57 \/ Start70 \/ Start77 \/ AcceptClosed
StopStep == Stop86

\* ------------------------------------------------------------------ ReadMessage
RECURSIVE Splits(_)
Splits(s) ==
  IF s = <<>> THEN {<<>>}
  ELSE UNION {{<<Take(s, k)>> \o rest : rest \in Splits(Drop(s, k))} : k \in 1..Len(s)}

NoResult == [body |-> <<>>, err |-> "none"]

ReadIdle ==
  /\ rd = [chunks |-> <<>>, buf |-> <<>>]
  /\ rpc = "idle"
  /\ rlen = <<0, 0>>
  /\ rres = NoResult
  /\ sent = [body |-> <<>>, cut |-> 0]

\* bufio.Reader.Read(p) with len(p) = n, over a socket whose reads return the
\* chunks in turn and fail once the stream has ended: at most one socket read,
\* and as many bytes as that gave, up to n.
BufioRead(r, n) ==
  IF n = 0 THEN [data |-> <<>>, err |-> FALSE, r |-> r]
  ELSE IF r.buf # <<>>
  THEN [data |-> Take(r.buf, n), err |-> FALSE, r |-> [r EXCEPT !.buf = Drop(r.buf, n)]]
  ELSE IF r.chunks = <<>>
  THEN [data |-> <<>>, err |-> TRUE, r |-> r]
  ELSE LET chunk == Head(r.chunks)
           room == IF n >= BufSize THEN n ELSE BufSize
           got == Take(chunk, room)
           left == IF Len(chunk) > room
                   THEN <<Drop(chunk, room)>> \o Tail(r.chunks)
                   ELSE Tail(r.chunks)
       IN [data |-> Take(got, n), err |-> FALSE,
           r |-> [chunks |-> left, buf |-> IF n >= BufSize THEN <<>> ELSE Drop(got, n)]]

\* make([]byte, n) after a Read that filled its first Len(data) bytes
Filled(data, n) == data \o Zeros(n - Len(data))

\* A ReadMessage that returns every failed length read as an error.
LengthFailedAlwaysError(closed) == [body |-> <<>>, err |-> "err"]

\* lines 140-145: the result when the length read fails
LengthFailed(closed) ==
  IF closed THEN [body |-> <<>>, err |-> "nil"] ELSE [body |-> <<>>, err |-> "err"]

\* lines 147-152: the body read and the result
ReadBody(r, n) ==
  LET x == BufioRead(r, n)
  IN [res |-> IF x.err THEN [body |-> <<>>, err |-> "err"]
              ELSE [body |-> Filled(x.data, n), err |-> "nil"],
      r |-> x.r]

\* func (c *TCPConnection) ReadMessage() ([]byte, error), as one function of the
\* reader's state
ReadMessageOn(r, closed) ==
  LET x == BufioRead(r, 2)
  IN IF x.err THEN LengthFailed(closed)
     ELSE ReadBody(x.r, Uint16(Filled(x.data, 2))).res

\* lines 139-145: length := make([]byte, 2); c.reader.Read(length)
RM140 ==
  /\ UNCHANGED <<connVars, srvVars>>
  /\ rpc = "idle"
  /\ LET x == BufioRead(rd, 2)
     IN /\ rd' = x.r
        /\ IF x.err
           THEN rres' = LengthFailed(Closed) /\ rpc' = "done" /\ rlen' = rlen
           ELSE rlen' = Filled(x.data, 2) /\ rpc' = "RM148" /\ rres' = rres
  /\ UNCHANGED sent

\* lines 147-152: body := make([]byte, Uint16(length)); c.reader.Read(body)
RM148 ==
  /\ UNCHANGED <<connVars, srvVars>>
  /\ rpc = "RM148"
  /\ LET x == ReadBody(rd, Uint16(rlen))
     IN rd' = x.r /\ rres' = x.res
  /\ rpc' = "done"
  /\ UNCHANGED <<rlen, sent>>

\* func (c *TCPConnection) ReadMessage() ([]byte, error), called by thread t
\* once the peer has ended the stream: the length read fails
ReadMessageCall(t) ==
  /\ UNCHANGED <<srvVars, readVars, sinceFlush>>
  /\ pc[t] = "idle"
  /\ rd.buf = <<>> /\ rd.chunks = <<>>
  /\ call' = [call EXCEPT ![t] = [op |-> "ReadMessage", arg |-> <<>>]]
  /\ ret' = [ret EXCEPT ![t] = ReadMessageOn(rd, Closed).err]
  /\ UNCHANGED <<Closed, closeFunctions, updates, connReleased, hookRuns, lastWrite, nWrites,
                 pc, loc>>

\* ------------------------------------------------------------------ specifications
\* A new connection and a new server; no ReadMessage call under way.
Init == ConnInit /\ SrvInit /\ ReadIdle

\* One thread makes every call on the connection, one after the other.
SeqNext == ConnCall("tick") \/ ReadMessageCall("tick") \/ ConnStep("tick")

SeqSpec == Init /\ [][SeqNext]_vars

\* One thread registers hooks, some of which call Close, writes messages and
\* calls Close.
HookNext ==
  \/ OnClose("tick") \/ OnCloseReentrant("tick") \/ CloseCall("tick")
  \/ (\E p \in {<<>>, <<1>>}, ok \in BOOLEAN : WriteMessage("tick", p, ok))
  \/ Close117("tick") \/ Close122("tick") \/ Close123("tick") \/ Close124("tick")
  \/ Close126("tick")

HookSpec == Init /\ [][HookNext]_vars

\* The tick thread makes its calls while the reader thread calls Close.
ConcNext ==
  \/ ConnCall("tick") \/ ConnStep("tick")
  \/ CloseCall("reader") \/ ConnStep("reader")

ConcSpec == Init /\ [][ConcNext]_vars

\* The accept loop, Stop, a consumer and the clients.
SrvNext ==
  \/ StartCall \/ (\E ok \in BOOLEAN : Start50(ok)) \/ LoopStep
  \/ AcceptSocket \/ AcceptError \/ Receive \/ Stop85 \/ StopStep \/ ExternalClose

SrvSpec == Init /\ [][SrvNext]_vars

\* Shutdown with no transient Accept error. The loop's own steps and Stop's are
\* taken when they can be; clients, the consumer and whoever closes the
\* listening socket are under no obligation.
ShutdownNext ==
  \/ StartCall \/ (\E ok \in BOOLEAN : Start50(ok)) \/ LoopStep
  \/ AcceptSocket \/ Receive \/ Stop85 \/ StopStep \/ ExternalClose

ShutdownSpec ==
  /\ Init
  /\ [][ShutdownNext]_vars
  /\ WF_vars(LoopStep)
  /\ WF_vars(StopStep)

\* One ReadMessage call on a stream that carries the peer's frame, or the part
\* of it that arrived before the stream ended, cut into chunks.
ReadInit ==
  /\ Closed \in BOOLEAN
  /\ closeFunctions = <<>>
  /\ updates = <<>>
  /\ connReleased = 0
  /\ hookRuns = <<>>
  /\ lastWrite = NoWrite
  /\ nWrites = 0
  /\ pc = [t \in Threads |-> "idle"]
  /\ call = [t \in Threads |-> NoCall]
  /\ loc = [t \in Threads |-> NoLoc]
  /\ ret = [t \in Threads |-> "none"]
  /\ sinceFlush = <<>>
  /\ \E b \in SeqsUpTo(SampleBytes, MaxBody) :
       \E cut \in 0..Len(PeerFrame(b)) :
         \E chunks \in Splits(Take(PeerFrame(b), cut)) :
           /\ sent = [body |-> b, cut |-> cut]
           /\ rd = [chunks |-> chunks, buf |-> <<>>]
  /\ rpc = "idle"
  /\ rlen = <<0, 0>>
  /\ rres = NoResult
  /\ SrvInit

ReadNext == RM140 \/ RM148

ReadSpec == ReadInit /\ [][ReadNext]_vars

\* ------------------------------------------------------------------ claims
\* A step in which thread "tick", the only caller in SeqSpec, makes the call op.
Calls(op) == pc["tick"] = "idle" /\ call'["tick"].op = op

\* a is the tick-update frame of tick t and payload B: t's 4 bytes, least
\* significant first, then B, then one zero byte.
IsTickFrame(a, t, B) ==
  /\ Len(a) = Len(B) + 5
  /\ a[1] + 256 * a[2] + 65536 * a[3] + 16777216 * a[4] = t
  /\ SubSeq(a, 5, Len(a) - 1) = B
  /\ a[Len(a)] = 0

\* What a peer's ReadMessage returns when bytes w are all of its stream.
PeerReads(w) == ReadMessageOn([chunks |-> <<w>>, buf |-> <<>>], FALSE)

\* C1: with sequential Close calls, the hooks run once each in registration
\* order (the hooks run are always a prefix of the hooks registered), all of
\* them before the socket is released, the socket is released once and no hook
\* runs after that; a Close call that finds the connection closed runs no hook,
\* releases nothing and returns nil.
C1_SequentialCloseOnce ==
  /\ [](IsPrefix(hookRuns, closeFunctions) /\ connReleased <= 1)
  /\ [][connReleased' # connReleased => hookRuns = closeFunctions /\ Closed]_vars
  /\ [][connReleased >= 1 => hookRuns' = hookRuns]_vars
  /\ [][(pc["tick"] = "Close117" /\ Closed)
          => /\ hookRuns' = hookRuns
             /\ connReleased' = connReleased
             /\ pc'["tick"] = "idle"
             /\ ret'["tick"] = "nil"]_vars

\* A second Close call arrives after both hooks ran and the socket was released.
C1_Witness ==
  /\ pc["tick"] = "Close117"
  /\ Closed
  /\ connReleased = 1
  /\ hookRuns = <<1, 2>>

\* C2: when two threads call Close concurrently, each hook runs once and the
\* socket is released once.
C2_ConcurrentCloseOnce ==
  /\ connReleased <= 1
  /\ \A h \in 1..MaxHooks : Count(hookRuns, h) <= 1

\* C3: once stopping is true, no connection is delivered to a consumer.
C3_NoDeliveryOnceStopping == [][stopping => delivered' = delivered]_vars

\* C4: once Stop has returned on a listener that was bound, Start returns nil.
C4_StopLeadsToReturn ==
  (stopPc = "done" /\ lpc \notin {"notStarted", "Start50"} /\ startRet # "err")
    ~> (startRet = "nil")

\* C5: Flush(t) with a non-empty buffer B makes exactly one WriteMessage call,
\* with t's 4 little-endian bytes, B and a zero byte, and when that write
\* succeeds Flush has returned and the buffer is empty.
C5_FlushFrame ==
  [][(Calls("Flush") /\ updates # <<>>)
       => /\ nWrites' = nWrites + 1
          /\ IsTickFrame(lastWrite'.arg, call'["tick"].arg[1], updates)
          /\ lastWrite'.ok => (updates' = <<>> /\ pc'["tick"] = "idle")]_vars

\* Flush(7) of the buffer 1, 2 on an open connection has written its frame.
C5_Witness ==
  /\ call["tick"] = [op |-> "Flush", arg |-> <<7>>]
  /\ pc["tick"] = "idle"
  /\ lastWrite = [arg |-> <<7, 0, 0, 0, 1, 2, 0>>, wire |-> <<7, 0, 0, 0, 1, 2, 0>>,
                  ok |-> TRUE]
  /\ updates = <<>>
  /\ ~Closed

\* C6: Flush with an empty buffer writes nothing and returns at once, leaving
\* buffer, closed flag, hooks and socket as they were, open or closed.
C6_FlushEmptyNoop ==
  [][(Calls("Flush") /\ updates = <<>>)
       => UNCHANGED <<updates, Closed, closeFunctions, connReleased, hookRuns,
                      lastWrite, nWrites, pc>>]_vars

\* Flush was called on a closed connection that never wrote: its buffer was empty.
C6_Witness ==
  /\ call["tick"].op = "Flush"
  /\ pc["tick"] = "idle"
  /\ nWrites = 0
  /\ Closed
  /\ connReleased = 1

\* C7: when the peer's whole frame of body b is on the stream, however it is
\* cut into chunks, ReadMessage returns b and no error.
C7_RoundTrip ==
  (rpc = "done" /\ sent.cut = Len(PeerFrame(sent.body)))
    => rres = [body |-> sent.body, err |-> "nil"]

C9_ClosedCallsAreNoops ==
  [][(Closed /\ (Calls("WriteMessage") \/ Calls("BufferUpdate") \/ Calls("Flush")))
       => \/ /\ nWrites' = nWrites \/ ~lastWrite'.ok
             /\ updates' = updates
          \/ ret'["tick"] = "err"]_vars

C11_TransientErrorContinues ==
  [][(lpc = "Start70" /\ conn = 0 /\ ~stopping)
       => /\ startRet' # "panic"
          /\ lpc' \in {"Start70", "Start57", "Start61"}
          /\ constructed' = constructed]_vars

\* C12: a Flush whose write failed returns nothing to its caller, and it
\* returns in one of two ways. On a connection that was open, it returns after
\* Close ran to its end: the flag is set, every registered hook ran once in
\* registration order and the socket was released once. On a connection that
\* was closed already, it returns at once: no hook runs and the socket is not
\* released again. Until that Close sets the flag, no hook has run and the
\* socket is not released.
C12_FlushFailureCloses ==
  /\ [][(call["tick"].op = "Flush" /\ pc["tick"] # "idle" /\ pc'["tick"] = "idle")
          => /\ ret'["tick"] = "none"
             /\ Closed'
             /\ \/ /\ pc["tick"] = "Flush178"
                   /\ hookRuns' = closeFunctions
                   /\ connReleased' = 1
                \/ /\ pc["tick"] = "Flush171"
                   /\ Closed
                   /\ UNCHANGED <<hookRuns, connReleased>>]_vars
  /\ [][(pc["tick"] = "Flush171" /\ ~Closed)
          => (hookRuns = <<>> /\ connReleased = 0 /\ pc'["tick"] # "idle")]_vars

\* A Flush on an open connection with two hooks has had its write fail and is
\* back from Close.
C12_Witness ==
  /\ pc["tick"] = "Flush178"
  /\ call["tick"].op = "Flush"
  /\ ~lastWrite.ok
  /\ hookRuns = <<1, 2>>
  /\ connReleased = 1

\* The stream has nothing more for the reader: a Read of one byte or more fails.
NothingToRead == rd.buf = <<>> /\ rd.chunks = <<>>

EmptyNoError == [body |-> <<>>, err |-> "nil"]
EmptyError == [body |-> <<>>, err |-> "err"]

\* The length read fails: no error on a closed connection, an error on an open
\* one. The body read fails: an error in either state.
ReadFailures ==
  /\ [][(rpc = "idle" /\ rpc' # "idle" /\ NothingToRead)
          => (rpc' = "done" /\ rres' = IF Closed THEN EmptyNoError ELSE EmptyError)]_vars
  /\ [][(rpc = "RM148" /\ rpc' = "done" /\ Uint16(rlen) > 0 /\ NothingToRead)
          => rres' = EmptyError]_vars

\* C13 as stated: ReadMessage returns an empty result with no error exactly
\* when the connection is marked closed and the length read fails; the other
\* read failures are returned as errors.
C13_EmptyExactlyWhenClosed ==
  /\ [](rpc = "done" => (rres = EmptyNoError <=> (Closed /\ sent.cut = 0)))
  /\ ReadFailures

\* C13: ReadMessage returns an empty result with no error when the connection
\* is marked closed and the length read fails, and otherwise only when the
\* length it read is zero; a failed length read on an open connection and a
\* failed body read in either state are returned as errors.
C13_EmptyWhenClosedOrZeroLength ==
  /\ [](rpc = "done"
          => (rres = EmptyNoError
                <=> \/ Closed /\ sent.cut = 0
                    \/ sent.cut > 0 /\ Uint16(rlen) = 0))
  /\ ReadFailures

\* The length read failed on a closed connection and ReadMessage returned the
\* empty result with no error.
C13_Witness == rpc = "done" /\ Closed /\ sent.cut = 0 /\ rres = EmptyNoError

\* How many bytes the reader can still hand out: its buffer and the chunks the
\* socket has yet to return.
RECURSIVE SumLen(_)
SumLen(chunks) == IF chunks = <<>> THEN 0 ELSE Len(Head(chunks)) + SumLen(Tail(chunks))

Unread(r) == Len(r.buf) + SumLen(r.chunks)

\* C14: once both bytes of a length prefix n > 0 have been read, ReadMessage
\* returns a body with no error only if the body read took n bytes from the
\* stream.
C14_ShortBodyIsError ==
  [][(/\ rpc = "RM148"
      /\ sent.cut - Unread(rd) = 2
      /\ Uint16(rlen) > 0
      /\ rpc' = "done"
      /\ rres'.err = "nil")
       => Unread(rd) - Unread(rd') = Uint16(rlen)]_vars

\* The step in which a Flush that found bytes in the buffer returns.
FlushReturns ==
  /\ pc'["tick"] = "idle"
  /\ \/ Calls("Flush") /\ updates # <<>>
     \/ call["tick"].op = "Flush" /\ pc["tick"] \in {"Flush171", "Flush178"}

\* C15: when a Flush that started with a non-empty buffer returns, the buffer
\* is empty, whether the write succeeded, failed on an open connection or
\* failed on a closed one.
C15_FlushEmptiesBuffer == [][FlushReturns => updates' = <<>>]_vars

\* C16: on an open connection whose write succeeds, a Flush sends one frame
\* whose payload is the bytes BufferUpdate was given since the previous Flush,
\* in the order of the calls, and is left with nothing buffered; with no
\* BufferUpdate since the previous Flush it sends no frame. So every buffered
\* byte goes out in one frame and only one, in order.
C16_FramesCarryUpdatesInOrder ==
  [][(Calls("Flush") /\ ~Closed /\ (nWrites' # nWrites => lastWrite'.ok))
       => IF sinceFlush = <<>>
          THEN nWrites' = nWrites /\ updates' = <<>>
          ELSE /\ nWrites' = nWrites + 1
               /\ IsTickFrame(lastWrite'.wire, call'["tick"].arg[1], sinceFlush)
               /\ updates' = <<>>]_vars

\* The second write of an open connection is the frame of a Flush, and it
\* carries the bytes 2, 1 buffered since the Flush before.
C16_Witness ==
  /\ call["tick"].op = "Flush"
  /\ pc["tick"] = "idle"
  /\ ~Closed
  /\ nWrites = 2
  /\ lastWrite.ok
  /\ IsTickFrame(lastWrite.wire, call["tick"].arg[1], <<2, 1>>)
  /\ sinceFlush = <<>>
  /\ updates = <<>>

\* The sockets whose Connection a consumer has received.
DeliveredSockets == {delivered[i] : i \in 1..Len(delivered)}

\* C17: when the accept loop has ended, every socket Accept returned has been
\* delivered to a consumer in a Connection or closed by the loop; and a loop
\* that finds shutdown requested after Accept closes the socket, constructs no
\* Connection and returns.
C17_NoSocketLeftOpen ==
  /\ [](lpc \in {"returned", "panicked"}
          => \A s \in 1..accepted : s \in DeliveredSockets \cup sockClosed)
  /\ [][(lpc = "Start70" /\ conn # 0 /\ stopping /\ lpc' # "Start70")
          => /\ sockClosed' = sockClosed \cup {conn}
             /\ constructed' = constructed
             /\ lpc' = "returned"]_vars

\* C18: Closed is terminal: no step of a Close, OnClose, WriteMessage,
\* ReadMessage, BufferUpdate or Flush call takes the flag from true to false.
\* The flag goes from false to true only at line 122 of a Close that the
\* application called, or that a Flush called after its write failed.
C18_ClosedIsTerminal ==
  /\ [][Closed => Closed']_vars
  /\ [][(~Closed /\ Closed')
          => /\ pc["tick"] = "Close122"
             /\ \/ call["tick"].op = "Close" /\ loc["tick"].from = "caller"
                \/ /\ call["tick"].op = "Flush"
                   /\ loc["tick"].from = "Flush"
                   /\ ~lastWrite.ok
                   /\ IsTickFrame(lastWrite.arg, call["tick"].arg[1], updates)]_vars

\* A connection whose only write was a Flush's and failed has since had
\* BufferUpdate and ReadMessage called on it, and it is closed.
C18_Witness ==
  /\ Closed
  /\ nWrites = 1
  /\ ~lastWrite.ok
  /\ IsTickFrame(lastWrite.arg, 7, <<1>>)
  /\ updates = <<2>>
  /\ call["tick"].op = "ReadMessage"
  /\ ret["tick"] = "nil"

\* C19: the accept loop is never at its send with the channel closed: it
\* starts no send after Stop has closed the channel, Stop does not close the
\* channel while a send waits, and the loop does not end in a panic.
C19_NoSendOnClosedChannel ==
  /\ ~(lpc = "Start77" /\ chanClosed)
  /\ ~(lpc = "panicked" /\ conn # 0)

\* C20: a hook that calls Close() while the first Close runs the hooks finds
\* the flag set: its call changes nothing and the loop goes on to the next
\* hook. The hooks run once each in registration order, and the socket is
\* released once, after the last hook of the loop.
C20_ReentrantCloseIsNoop ==
  /\ [](IsPrefix(hookRuns, closeFunctions))
  /\ [][(pc["tick"] = "Close124" /\ CallsClose(loc["tick"].fs[loc["tick"].i]))
          => /\ Closed /\ Closed'
             /\ hookRuns' = Append(hookRuns, loc["tick"].fs[loc["tick"].i])
             /\ loc'["tick"].i = loc["tick"].i + 1
             /\ pc'["tick"] \in {"Close124", "Close126"}
             /\ connReleased' = connReleased]_vars
  /\ [][connReleased' # connReleased
          => (connReleased' = 1 /\ hookRuns = loc["tick"].fs)]_vars

\* Close() has returned nil on a connection whose first hook calls Close():
\* both hooks ran once and the socket was released once.
C20_Witness ==
  /\ call["tick"].op = "Close"
  /\ pc["tick"] = "idle"
  /\ ret["tick"] = "nil"
  /\ closeFunctions = <<0 - 1, 2>>
  /\ hookRuns = <<0 - 1, 2>>
  /\ connReleased = 1
  /\ Closed

====
